---- MODULE Spec2Model ----
(***************************************************************************)
(* GST invoicing backend (knowchiranjeeb/ColSolTest): the line-item tax    *)
(* calculator (SaveInvoiceItem, GetInvoiceItemTaxDetails) and the          *)
(* balance/adjustment ledger (SaveInvoiceDet, SaveAdjustment,              *)
(* DeleteAdjustment), as state machines over the database tables.          *)
(***************************************************************************)
EXTENDS Integers, Sequences, FiniteSets, TLC

(***************************************************************************)
(* Bounds of the model.                                                    *)
(***************************************************************************)
MaxInvoices == 1
MaxItems == 1
MaxAdj == 2
MaxPayments == 2
MaxTaxItems == 3
MaxPayModes == 2

(***************************************************************************)
(* JS numbers that are not integers (taxrate / 2, x / 100) are modelled    *)
(* as exact rationals <<numerator, denominator>> in lowest terms with a    *)
(* positive denominator.                                                   *)
(***************************************************************************)
Abs(n) == IF n < 0 THEN -n ELSE n

RECURSIVE GCD(_, _)
GCD(a, b) == IF b = 0 THEN a ELSE GCD(b, a % b)

Norm(n, d) ==
  LET g == GCD(Abs(n), Abs(d))
      s == IF d < 0 THEN -1 ELSE 1
  IN  <<(s * n) \div g, (s * d) \div g>>

Rat(n) == <<n, 1>>
RAdd(x, y) == Norm(x[1] * y[2] + y[1] * x[2], x[2] * y[2])
RMul(x, y) == Norm(x[1] * y[1], x[2] * y[2])
RDiv(x, y) == Norm(x[1] * y[2], x[2] * y[1])
Zero == Rat(0)

(***************************************************************************)
(* Reference tables read by the calculator.  Company 3, customer 2 and     *)
(* item 4 have no row.                                                     *)
(***************************************************************************)
Company == (1 :> [stateid |-> 1]) @@ (2 :> [stateid |-> 2])
Customer == (1 :> [compid |-> 1, placeofsupply |-> 1])
         @@ (3 :> [compid |-> 1, placeofsupply |-> 2])
Items == (1 :> [sellprice |-> 1000, taxrate |-> 18])
      @@ (2 :> [sellprice |-> 200, taxrate |-> 5])
      @@ (3 :> [sellprice |-> 50, taxrate |-> 0])

(***************************************************************************)
(* Request inputs.                                                         *)
(***************************************************************************)
CompIds == {1, 2, 3}
CustIds == {1, 2}
ItemIds == 0 .. 4
Quantities == {1, 2}
Rates == {1000}
Discounts == {0, 100}
LineDiscounts == {100}
Totals == {1180, 2000}
PayIds == {1, 2}
AdjustAmts == {500, 680}
PayCustIds == {1, 2, 3}
PayAmounts == {1000}
UnadjustAmts == {500, 1000}

\* Invoice, InvoiceItem, InvoiceTax, Adjustment, Payments: the tables;
\* unadjamt: the unadjamt column of the Customer rows; inflight: the requests
\* that have run some of their statements and not yet answered; res: the
\* last answer.
VARIABLES Invoice, InvoiceItem, InvoiceTax, Adjustment, Payments, unadjamt,
          Registration, Users, CompanyInserted, PayMode, inflight, res

vars == <<Invoice, InvoiceItem, InvoiceTax, Adjustment, Payments, unadjamt,
          Registration, Users, CompanyInserted, PayMode, inflight, res>>

\* the tables of the registration and pay mode routes
otherTables == <<Registration, Users, CompanyInserted, PayMode>>

Idle == [pc |-> "idle"]

Init ==
  /\ Invoice = <<>>
  /\ InvoiceItem = <<>>
  /\ InvoiceTax = <<>>
  /\ Adjustment = <<>>
  /\ Payments = <<>>
  /\ unadjamt = [custid \in DOMAIN Customer |-> 0]
  /\ inflight = [slot \in 1 .. 2 |-> Idle]
  /\ Registration = <<>>
  /\ Users = <<>>
  /\ CompanyInserted = <<>>
  /\ PayMode = <<>>
  /\ res = [op |-> "none", status |-> 0]

(***************************************************************************)
(* SQL helpers.                                                            *)
(***************************************************************************)
InvoiceExists(invid) == invid \in 1 .. Len(Invoice)

RECURSIVE SumAdjust(_, _)
SumAdjust(rows, invid) ==
  IF rows = <<>> THEN 0
  ELSE (IF Head(rows).invid = invid THEN Head(rows).adjustamt ELSE 0)
       + SumAdjust(Tail(rows), invid)

(***************************************************************************)
(* Line-item tax calculator.                                               *)
(***************************************************************************)
TaxRateOf(itemid) ==
  IF itemid \in DOMAIN Items THEN Items[itemid].taxrate ELSE 0

SellPriceOf(itemid) ==
  IF itemid \in DOMAIN Items THEN Items[itemid].sellprice ELSE 0

StateIdOf(compid) ==
  IF compid \in DOMAIN Company THEN Company[compid].stateid ELSE 0

PlaceOfSupplyOf(custid) ==
  IF custid \in DOMAIN Customer THEN Customer[custid].placeofsupply ELSE 0

\* mutant: the halves are truncated to whole percents
TaxSplitTruncated(stateid, placeofsupply, taxrate) ==
  IF stateid = placeofsupply
  THEN [cgstper |-> Zero, sgstper |-> Zero, igstper |-> Rat(taxrate)]
  ELSE [cgstper |-> Rat(taxrate \div 2),
        sgstper |-> Rat(taxrate \div 2),
        igstper |-> Zero]

\* mutant: both branches charge IGST
TaxSplitBothRegimes(stateid, placeofsupply, taxrate) ==
  [cgstper |-> IF stateid = placeofsupply THEN Zero ELSE RDiv(Rat(taxrate), Rat(2)),
   sgstper |-> IF stateid = placeofsupply THEN Zero ELSE RDiv(Rat(taxrate), Rat(2)),
   igstper |-> Rat(taxrate)]

\* if (stateid === placeofsupply) { igstper = taxrate } else { cgstper = sgstper = taxrate / 2 }
TaxSplit(stateid, placeofsupply, taxrate) ==
  IF stateid = placeofsupply
  THEN [cgstper |-> Zero, sgstper |-> Zero, igstper |-> Rat(taxrate)]
  ELSE [cgstper |-> RDiv(Rat(taxrate), Rat(2)),
        sgstper |-> RDiv(Rat(taxrate), Rat(2)),
        igstper |-> Zero]

\* mutant: the SGST term forgets the discount
LineTotalsSgstNoDiscount(quantity, rate, discount, split) ==
  LET amount == quantity * rate
      taxtotal ==
        RAdd(RAdd(RMul(Rat(amount - discount), RDiv(split.cgstper, Rat(100))),
                  RMul(Rat(quantity * rate), RDiv(split.sgstper, Rat(100)))),
             RMul(Rat((quantity * rate) - discount), RDiv(split.igstper, Rat(100))))
      total == RAdd(Rat(amount - discount), taxtotal)
  IN  [amount |-> amount, taxtotal |-> taxtotal, total |-> total]

\* mutant: the stored total leaves the discount out
LineTotalsTotalBeforeDiscount(quantity, rate, discount, split) ==
  LET amount == quantity * rate
      taxtotal ==
        RAdd(RAdd(RMul(Rat(amount - discount), RDiv(split.cgstper, Rat(100))),
                  RMul(Rat((quantity * rate) - discount), RDiv(split.sgstper, Rat(100)))),
             RMul(Rat((quantity * rate) - discount), RDiv(split.igstper, Rat(100))))
      total == RAdd(Rat(amount), taxtotal)
  IN  [amount |-> amount, taxtotal |-> taxtotal, total |-> total]

\* amount, taxtotal and total of the row SaveInvoiceItem inserts
LineTotals(quantity, rate, discount, split) ==
  LET amount == quantity * rate
      taxtotal ==
        RAdd(RAdd(RMul(Rat(amount - discount), RDiv(split.cgstper, Rat(100))),
                  RMul(Rat((quantity * rate) - discount), RDiv(split.sgstper, Rat(100)))),
             RMul(Rat((quantity * rate) - discount), RDiv(split.igstper, Rat(100))))
      total == RAdd(Rat(amount - discount), taxtotal)
  IN  [amount |-> amount, taxtotal |-> taxtotal, total |-> total]

\* mutant: IGST is charged on the amount before discount
TaxDetailsIgstOnAmount(quantity, rate, discount, split) ==
  LET amount == quantity * rate
      cgst == RMul(Rat(amount - discount), RDiv(split.cgstper, Rat(100)))
      sgst == RMul(Rat(amount - discount), RDiv(split.sgstper, Rat(100)))
      igst == RMul(Rat(amount), RDiv(split.igstper, Rat(100)))
      taxtotal == RAdd(RAdd(cgst, sgst), igst)
      total == RAdd(Rat(amount - discount), taxtotal)
  IN  [Rate |-> rate, Amount |-> amount, CGST |-> cgst, SGST |-> sgst,
       IGST |-> igst, TaxTotal |-> taxtotal, Total |-> total]

\* the body GetInvoiceItemTaxDetails answers with
TaxDetails(quantity, rate, discount, split) ==
  LET amount == quantity * rate
      cgst == RMul(Rat(amount - discount), RDiv(split.cgstper, Rat(100)))
      sgst == RMul(Rat(amount - discount), RDiv(split.sgstper, Rat(100)))
      igst == RMul(Rat(amount - discount), RDiv(split.igstper, Rat(100)))
      taxtotal == RAdd(RAdd(cgst, sgst), igst)
      total == RAdd(Rat(amount - discount), taxtotal)
  IN  [Rate |-> rate, Amount |-> amount, CGST |-> cgst, SGST |-> sgst,
       IGST |-> igst, TaxTotal |-> taxtotal, Total |-> total]

Respond(op, status) == [op |-> op, status |-> status]

\* mutant: a new invoice starts with nothing due
NewInvoiceRowNothingDue(compid, custid, total) ==
  [compid |-> compid, custid |-> custid, total |-> total, amtdue |-> 0]

\* INSERT INTO "Invoice" (..., total, ..., amtdue, ...) VALUES (..., $18, ..., $18, ...)
NewInvoiceRow(compid, custid, total) ==
  [compid |-> compid, custid |-> custid, total |-> total, amtdue |-> total]

SaveInvoiceDet(invid, hasInvNo, compid, custid, total) ==
  /\ UNCHANGED <<Payments, unadjamt, inflight, otherTables>>
  /\ IF ~hasInvNo
     THEN /\ res' = Respond("SaveInvoiceDet", 400)
          /\ UNCHANGED <<Invoice, InvoiceItem, InvoiceTax, Adjustment>>
     ELSE IF invid > 0
     THEN IF InvoiceExists(invid)
          THEN /\ Invoice' = [Invoice EXCEPT ![invid] =
                                [@ EXCEPT !.compid = compid, !.custid = custid,
                                          !.total = total]]
               /\ InvoiceItem' = SelectSeq(InvoiceItem, LAMBDA r : r.invoiceid # invid)
               /\ InvoiceTax' = SelectSeq(InvoiceTax, LAMBDA r : r.invid # invid)
               /\ res' = [op |-> "SaveInvoiceDet", status |-> 200, invid |-> invid,
                          created |-> FALSE]
               /\ UNCHANGED Adjustment
          ELSE /\ res' = Respond("SaveInvoiceDet", 500)
               /\ UNCHANGED <<Invoice, InvoiceItem, InvoiceTax, Adjustment>>
     ELSE /\ Len(Invoice) < MaxInvoices
          /\ Invoice' = Append(Invoice, NewInvoiceRow(compid, custid, total))
          /\ res' = [op |-> "SaveInvoiceDet", status |-> 200,
                     invid |-> Len(Invoice) + 1, created |-> TRUE]
          /\ UNCHANGED <<InvoiceItem, InvoiceTax, Adjustment>>

\* the row SaveInvoiceItem inserts for a line of an existing invoice
NewInvoiceItemRow(invoices, invoiceid, itemid, quantity, rate, discount) ==
  LET compid == invoices[invoiceid].compid
      custid == invoices[invoiceid].custid
      taxrate == TaxRateOf(itemid)
      stateid == StateIdOf(compid)
      placeofsupply == PlaceOfSupplyOf(custid)
      split == TaxSplit(stateid, placeofsupply, taxrate)
      line == LineTotals(quantity, rate, discount, split)
  IN  [invoiceid |-> invoiceid, itemid |-> itemid, quantity |-> quantity,
       rate |-> rate, amount |-> line.amount, discount |-> discount,
       cgstper |-> split.cgstper, sgstper |-> split.sgstper,
       igstper |-> split.igstper, taxtotal |-> line.taxtotal,
       total |-> line.total]

SaveInvoiceItem(invoiceid, itemid, quantity, rate, discount) ==
  /\ UNCHANGED <<Payments, unadjamt, inflight, otherTables>>
  /\ IF invoiceid = 0 \/ itemid = 0 \/ quantity = 0 \/ rate = 0
     THEN /\ res' = Respond("SaveInvoiceItem", 400)
          /\ UNCHANGED <<Invoice, InvoiceItem, InvoiceTax, Adjustment>>
     ELSE IF ~InvoiceExists(invoiceid)
     THEN /\ res' = Respond("SaveInvoiceItem", 400)
          /\ UNCHANGED <<Invoice, InvoiceItem, InvoiceTax, Adjustment>>
     ELSE /\ Len(InvoiceItem) < MaxItems
          /\ InvoiceItem' = Append(InvoiceItem,
                                   NewInvoiceItemRow(Invoice, invoiceid, itemid,
                                                     quantity, rate, discount))
          /\ res' = Respond("SaveInvoiceItem", 200)
          /\ UNCHANGED <<Invoice, InvoiceTax, Adjustment>>

GetInvoiceItemTaxDetails(compid, custid, itemid, quantity, discount) ==
  /\ UNCHANGED <<Payments, unadjamt, inflight, otherTables>>
  /\ LET req == [compid |-> compid, custid |-> custid, itemid |-> itemid,
                 quantity |-> quantity, discount |-> discount]
     IN
     IF compid = 0 \/ custid = 0 \/ itemid = 0
     THEN /\ res' = [op |-> "GetInvoiceItemTaxDetails", status |-> 400, req |-> req]
          /\ UNCHANGED <<Invoice, InvoiceItem, InvoiceTax, Adjustment>>
     ELSE LET rate == SellPriceOf(itemid)
              taxrate == TaxRateOf(itemid)
              stateid == StateIdOf(compid)
              placeofsupply == PlaceOfSupplyOf(custid)
              split == TaxSplit(stateid, placeofsupply, taxrate)
          IN  /\ res' = [op |-> "GetInvoiceItemTaxDetails", status |-> 200, req |-> req,
                         body |-> TaxDetails(quantity, rate, discount, split)]
              /\ UNCHANGED <<Invoice, InvoiceItem, InvoiceTax, Adjustment>>

(***************************************************************************)
(* Balance/adjustment ledger.                                              *)
(***************************************************************************)
\* mutant: the delete also resets amtdue of every invoice to its total
DeleteAdjustmentResetsDue(payid) ==
  /\ UNCHANGED <<Payments, unadjamt, inflight, otherTables>>
  /\ LET deleted == SelectSeq(Adjustment, LAMBDA r : r.payid = payid)
     IN  IF deleted = <<>>
         THEN /\ res' = [op |-> "DeleteAdjustment", status |-> 400, payid |-> payid]
              /\ UNCHANGED <<Invoice, InvoiceItem, InvoiceTax, Adjustment>>
         ELSE /\ Adjustment' = SelectSeq(Adjustment, LAMBDA r : r.payid # payid)
              /\ Invoice' = [invid \in 1 .. Len(Invoice) |->
                               [Invoice[invid] EXCEPT !.amtdue = Invoice[invid].total]]
              /\ res' = [op |-> "DeleteAdjustment", status |-> 200, payid |-> payid]
              /\ UNCHANGED <<InvoiceItem, InvoiceTax>>

DeleteAdjustment(payid) ==
  /\ UNCHANGED <<Payments, unadjamt, inflight, otherTables>>
  /\ LET deleted == SelectSeq(Adjustment, LAMBDA r : r.payid = payid)
     IN  IF deleted = <<>>
         THEN /\ res' = [op |-> "DeleteAdjustment", status |-> 400, payid |-> payid]
              /\ UNCHANGED <<Invoice, InvoiceItem, InvoiceTax, Adjustment>>
         ELSE /\ Adjustment' = SelectSeq(Adjustment, LAMBDA r : r.payid # payid)
              /\ res' = [op |-> "DeleteAdjustment", status |-> 200, payid |-> payid]
              /\ UNCHANGED <<Invoice, InvoiceItem, InvoiceTax>>

\* mutant: the new adjustment is subtracted from the stored amtdue
UpdateAmtDueIncremental(invoices, adjustments, invid) ==
  IF invid \in 1 .. Len(invoices)
  THEN [invoices EXCEPT ![invid].amtdue =
          invoices[invid].amtdue - adjustments[Len(adjustments)].adjustamt]
  ELSE invoices

\* mutant: only the newest adjustment is subtracted from the total
UpdateAmtDueLastRow(invoices, adjustments, invid) ==
  IF invid \in 1 .. Len(invoices)
  THEN [invoices EXCEPT ![invid].amtdue =
          invoices[invid].total
            - (IF adjustments = <<>> THEN 0
               ELSE adjustments[Len(adjustments)].adjustamt)]
  ELSE invoices

\* mutant: the recomputation lowers amtdue but never raises it
UpdateAmtDueNeverRaises(invoices, adjustments, invid) ==
  IF invid \in 1 .. Len(invoices)
  THEN LET recomputed == invoices[invid].total - SumAdjust(adjustments, invid)
       IN  [invoices EXCEPT ![invid].amtdue =
              IF recomputed < invoices[invid].amtdue
              THEN recomputed ELSE invoices[invid].amtdue]
  ELSE invoices

\* UPDATE Invoice SET amtdue = total - (SELECT COALESCE(SUM(adjustamt), 0) ...) WHERE invid = $1
UpdateAmtDue(invoices, adjustments, invid) ==
  IF invid \in 1 .. Len(invoices)
  THEN [invoices EXCEPT ![invid].amtdue =
          invoices[invid].total - SumAdjust(adjustments, invid)]
  ELSE invoices

SaveAdjustment(invid, payid, adjustamt) ==
  /\ Len(Adjustment) < MaxAdj
  /\ Adjustment' = Append(Adjustment,
                          [invid |-> invid, payid |-> payid, adjustamt |-> adjustamt])
  /\ Invoice' = UpdateAmtDue(Invoice, Adjustment', invid)
  /\ res' = [op |-> "SaveAdjustment", status |-> 200, invid |-> invid,
             payid |-> payid, updated |-> InvoiceExists(invid)]
  /\ UNCHANGED <<InvoiceItem, InvoiceTax, Payments, unadjamt, inflight, otherTables>>

(***************************************************************************)
(* Payments and the customers' unadjusted balance.                         *)
(***************************************************************************)
PaymentExists(payid) == payid \in 1 .. Len(Payments)

\* SELECT COALESCE(SUM(unadjustamt), 0) FROM Payments WHERE custid = $1
RECURSIVE SumUnadjust(_, _)
SumUnadjust(rows, custid) ==
  IF rows = <<>> THEN 0
  ELSE (IF Head(rows).custid = custid THEN Head(rows).unadjustamt ELSE 0)
       + SumUnadjust(Tail(rows), custid)

\* mutant: the sum is written to every customer
UpdateCustomerAll(balances, custid, totalUnadjamt) ==
  [c \in DOMAIN balances |-> totalUnadjamt]

\* UPDATE Customer SET unadjamt = $1 WHERE custid = $2
UpdateCustomer(balances, custid, totalUnadjamt) ==
  IF custid \in DOMAIN balances
  THEN [balances EXCEPT ![custid] = totalUnadjamt]
  ELSE balances

\* INSERT INTO Payments (...) or UPDATE Payments SET ... WHERE payid = $1
WritePayment(payments, existing, payid, custid, payamount, unadjustamt) ==
  LET row == [custid |-> custid, payamount |-> payamount, unadjustamt |-> unadjustamt]
  IN  IF existing
      THEN IF payid \in 1 .. Len(payments)
           THEN [payments EXCEPT ![payid] = row]
           ELSE payments
      ELSE Append(payments, row)

SavePayment(payid, custid, payamount, unadjustamt) ==
  LET existing == PaymentExists(payid)
  IN  /\ existing \/ Len(Payments) < MaxPayments
      /\ Payments' = WritePayment(Payments, existing, payid, custid, payamount,
                                  unadjustamt)
      /\ res' = [op |-> "SavePayment", status |-> 200,
                 payid |-> IF existing THEN payid ELSE Len(Payments) + 1]
      /\ UNCHANGED <<Invoice, InvoiceItem, InvoiceTax, Adjustment, unadjamt, inflight, otherTables>>

UpdateCustUnadjBal(custid) ==
  LET totalUnadjamt == SumUnadjust(Payments, custid)
  IN  /\ unadjamt' = UpdateCustomer(unadjamt, custid, totalUnadjamt)
      /\ res' = [op |-> "UpdateCustUnadjBal", status |-> 200, custid |-> custid]
      /\ UNCHANGED <<Invoice, InvoiceItem, InvoiceTax, Adjustment, Payments, inflight, otherTables>>

(***************************************************************************)
(* Reports that label an invoice's payment status.  A report row carries   *)
(* the invoice id in place of the invoice number.                          *)
(***************************************************************************)
\* CASE WHEN I.total = I.amtdue ... WHEN I.amtdue > 0 AND I.amtdue < I.total ... ELSE ...
InvDetailsStatus(total, amtdue) ==
  IF total = amtdue THEN "Not paid"
  ELSE IF amtdue > 0 /\ amtdue < total THEN "Partial Paid"
  ELSE "Paid"

\* CASE WHEN I.total = I.amtdue ... WHEN I.amtdue > 0 AND I.total < I.amtdue ... ELSE ...
RecSumStatus(total, amtdue) ==
  IF total = amtdue THEN "Not Paid"
  ELSE IF amtdue > 0 /\ total < amtdue THEN "Partially Paid"
  ELSE "Fully Paid"

\* "Invoice" I INNER JOIN "Customer" C ON I.custid = C.custid AND I.compid = C.compid
\* WHERE I.compid = $1
ReportedInvoices(compid) ==
  {invid \in 1 .. Len(Invoice) :
     /\ Invoice[invid].compid = compid
     /\ Invoice[invid].custid \in DOMAIN Customer
     /\ Customer[Invoice[invid].custid].compid = Invoice[invid].compid}

GetInvDetails(compid) ==
  /\ res' = [op |-> "GetInvDetails", status |-> 200,
             body |-> [invid \in ReportedInvoices(compid) |->
                         InvDetailsStatus(Invoice[invid].total, Invoice[invid].amtdue)]]
  /\ UNCHANGED <<Invoice, InvoiceItem, InvoiceTax, Adjustment, Payments, unadjamt,
                 inflight, otherTables>>

GetRecSum(compid) ==
  /\ res' = [op |-> "GetRecSum", status |-> 200,
             body |-> [invid \in ReportedInvoices(compid) |->
                         RecSumStatus(Invoice[invid].total, Invoice[invid].amtdue)]]
  /\ UNCHANGED <<Invoice, InvoiceItem, InvoiceTax, Adjustment, Payments, unadjamt,
                 inflight, otherTables>>

(***************************************************************************)
(* The same handlers statement by statement.  A slot of inflight holds one *)
(* request: the values it has read so far while it awaits its next         *)
(* statement, and what it did once it has answered.                        *)
(***************************************************************************)
\* INSERT INTO Adjustment (...) RETURNING invid, payid
SaveAdjustmentInsert(slot, invid, payid, adjustamt) ==
  /\ inflight[slot].pc = "idle"
  /\ Adjustment' = Append(Adjustment,
                          [invid |-> invid, payid |-> payid, adjustamt |-> adjustamt])
  /\ inflight' = [inflight EXCEPT ![slot] =
                    [pc |-> "updateInvoice", invid |-> invid, payid |-> payid]]
  /\ UNCHANGED <<otherTables, Invoice, InvoiceItem, InvoiceTax, Payments, unadjamt, res>>

\* mutant: the request answers without its UPDATE taking effect
SaveAdjustmentUpdateLost(slot) ==
  LET req == inflight[slot]
  IN  /\ req.pc = "updateInvoice"
      /\ res' = [op |-> "SaveAdjustment", status |-> 200, invid |-> req.invid,
                 payid |-> req.payid, updated |-> InvoiceExists(req.invid)]
      /\ inflight' = [inflight EXCEPT ![slot] =
                        [pc |-> "done", op |-> "SaveAdjustment", invid |-> req.invid,
                         payid |-> req.payid,
                         rows |-> Len(SelectSeq(Adjustment,
                                                LAMBDA r : r.invid = req.invid))]]
      /\ UNCHANGED <<otherTables, Invoice, InvoiceItem, InvoiceTax, Adjustment, Payments, unadjamt>>

\* UPDATE Invoice SET amtdue = total - (SELECT ...) WHERE invid = $1, then the answer;
\* rows is the number of Adjustment rows the subselect summed
SaveAdjustmentUpdate(slot) ==
  LET req == inflight[slot]
  IN  /\ req.pc = "updateInvoice"
      /\ Invoice' = UpdateAmtDue(Invoice, Adjustment, req.invid)
      /\ res' = [op |-> "SaveAdjustment", status |-> 200, invid |-> req.invid,
                 payid |-> req.payid, updated |-> InvoiceExists(req.invid)]
      /\ inflight' = [inflight EXCEPT ![slot] =
                        [pc |-> "done", op |-> "SaveAdjustment", invid |-> req.invid,
                         payid |-> req.payid,
                         rows |-> Len(SelectSeq(Adjustment,
                                                LAMBDA r : r.invid = req.invid))]]
      /\ UNCHANGED <<otherTables, InvoiceItem, InvoiceTax, Adjustment, Payments, unadjamt>>

\* SELECT * FROM Payments WHERE payid = $1
SavePaymentSelect(slot, payid, custid, payamount, unadjustamt) ==
  /\ inflight[slot].pc = "idle"
  /\ inflight' = [inflight EXCEPT ![slot] =
                    [pc |-> "writePayment", payid |-> payid, custid |-> custid,
                     payamount |-> payamount, unadjustamt |-> unadjustamt,
                     existing |-> PaymentExists(payid)]]
  /\ UNCHANGED <<otherTables, Invoice, InvoiceItem, InvoiceTax, Adjustment, Payments, unadjamt, res>>

\* the INSERT or the UPDATE chosen by the earlier SELECT, then the answer
SavePaymentWrite(slot) ==
  LET req == inflight[slot]
  IN  /\ req.pc = "writePayment"
      /\ Payments' = WritePayment(Payments, req.existing, req.payid, req.custid,
                                  req.payamount, req.unadjustamt)
      /\ res' = [op |-> "SavePayment", status |-> 200,
                 payid |-> IF req.existing THEN req.payid ELSE Len(Payments) + 1]
      /\ inflight' = [inflight EXCEPT ![slot] =
                        [pc |-> "done", op |-> "SavePayment", custid |-> req.custid]]
      /\ UNCHANGED <<otherTables, Invoice, InvoiceItem, InvoiceTax, Adjustment, unadjamt>>

\* SELECT COALESCE(SUM(unadjustamt), 0) AS total_unadjamt FROM Payments WHERE custid = $1
UpdateCustUnadjBalSelect(slot, custid) ==
  /\ inflight[slot].pc = "idle"
  /\ inflight' = [inflight EXCEPT ![slot] =
                    [pc |-> "updateCustomer", custid |-> custid,
                     totalUnadjamt |-> SumUnadjust(Payments, custid)]]
  /\ UNCHANGED <<otherTables, Invoice, InvoiceItem, InvoiceTax, Adjustment, Payments, unadjamt, res>>

\* UPDATE Customer SET unadjamt = $1 WHERE custid = $2, then the answer
UpdateCustUnadjBalUpdate(slot) ==
  LET req == inflight[slot]
  IN  /\ req.pc = "updateCustomer"
      /\ unadjamt' = UpdateCustomer(unadjamt, req.custid, req.totalUnadjamt)
      /\ res' = [op |-> "UpdateCustUnadjBal", status |-> 200, custid |-> req.custid]
      /\ inflight' = [inflight EXCEPT ![slot] =
                        [pc |-> "done", op |-> "UpdateCustUnadjBal",
                         custid |-> req.custid]]
      /\ UNCHANGED <<otherTables, Invoice, InvoiceItem, InvoiceTax, Adjustment, Payments>>

(***************************************************************************)
(* SaveInvoiceTax: the tax rows of an invoice aggregated from its lines.    *)
(***************************************************************************)
\* the three SELECTs of the subquery, merged by UNION (which drops duplicates)
TaxStreams(items, invoiceid) ==
  LET lines == {n \in 1 .. Len(items) : items[n].invoiceid = invoiceid}
  IN  {[percentage |-> items[n].cgstper, taxtype |-> "CGST",
        total |-> items[n].amount - items[n].discount] :
         n \in {m \in lines : items[m].cgstper[1] > 0}}
      \cup
      {[percentage |-> items[n].sgstper, taxtype |-> "SGST",
        total |-> items[n].amount - items[n].discount] :
         n \in {m \in lines : items[m].sgstper[1] > 0}}
      \cup
      {[percentage |-> items[n].igstper, taxtype |-> "IGST",
        total |-> items[n].amount - items[n].discount] :
         n \in {m \in lines : items[m].igstper[1] > 0}}

RECURSIVE SumTotal(_)
SumTotal(stream) ==
  IF stream = {} THEN 0
  ELSE LET a == CHOOSE x \in stream : TRUE
       IN  a.total + SumTotal(stream \ {a})

\* avg(a.total) of one group
AvgTotal(stream) == RDiv(Rat(SumTotal(stream)), Rat(Cardinality(stream)))

\* the rows of queryItems: one per (percentage, taxtype) group
QueryItems(items, invoiceid) ==
  LET a == TaxStreams(items, invoiceid)
      groups == {<<x.percentage, x.taxtype>> : x \in a}
      value(g) == RMul(RDiv(g[1], Rat(100)),
                       AvgTotal({x \in a : x.percentage = g[1] /\ x.taxtype = g[2]}))
  IN  {[percentage |-> g[1],
        cgst |-> IF g[2] = "CGST" THEN value(g) ELSE Zero,
        sgst |-> IF g[2] = "SGST" THEN value(g) ELSE Zero,
        igst |-> IF g[2] = "IGST" THEN value(g) ELSE Zero] : g \in groups}

\* the orders in which the database may return the rows of a query that has
\* no ORDER BY
RowOrders(rows) ==
  {order \in [1 .. Cardinality(rows) -> rows] :
     \A i, j \in 1 .. Cardinality(rows) : order[i] = order[j] => i = j}

\* mutant: only the first percentage is kept
TaxRowsFirstOnly(invoiceItems) ==
  IF invoiceItems = <<>> THEN <<>> ELSE <<invoiceItems[1]>>

\* groupedTaxData[percentage] = {...} for each row, then Object.values: a later
\* row of a percentage replaces the earlier one; integer keys come first in
\* ascending order, the other keys follow in the order of their first insertion
TaxRows(invoiceItems) ==
  LET idx == 1 .. Len(invoiceItems)
      keys == {invoiceItems[i].percentage : i \in idx}
      first(k) == CHOOSE i \in idx :
                    /\ invoiceItems[i].percentage = k
                    /\ \A j \in idx : invoiceItems[j].percentage = k => i <= j
      last(k) == CHOOSE i \in idx :
                   /\ invoiceItems[i].percentage = k
                   /\ \A j \in idx : invoiceItems[j].percentage = k => j <= i
      isIndex(k) == k[2] = 1
      before(k, l) ==
        IF isIndex(k) /\ isIndex(l) THEN k[1] < l[1]
        ELSE IF isIndex(k) # isIndex(l) THEN isIndex(k)
        ELSE first(k) < first(l)
      position(k) == Cardinality({l \in keys : before(l, k)}) + 1
  IN  [n \in 1 .. Cardinality(keys) |->
         invoiceItems[last(CHOOSE k \in keys : position(k) = n)]]

\* SELECT COALESCE(MAX(sr), 0) + 1 AS next_serial FROM "InvoiceTax" WHERE invid = $1
NextSerial(taxes, invoiceid) ==
  LET used == {taxes[n].sr : n \in {m \in 1 .. Len(taxes) : taxes[m].invid = invoiceid}}
  IN  (IF used = {} THEN 0 ELSE CHOOSE sr \in used : \A other \in used : other <= sr) + 1

\* queryItems and the grouping; answers 400 when there is no tax row
SaveInvoiceTaxSelect(slot, invoiceid) ==
  /\ inflight[slot].pc = "idle"
  /\ \E invoiceItems \in RowOrders(QueryItems(InvoiceItem, invoiceid)) :
       LET taxRows == TaxRows(invoiceItems)
       IN  IF taxRows = <<>>
           THEN /\ res' = [op |-> "SaveInvoiceTax", status |-> 400,
                           invoiceid |-> invoiceid]
                /\ inflight' = [inflight EXCEPT ![slot] =
                                  [pc |-> "done", op |-> "SaveInvoiceTax",
                                   invoiceid |-> invoiceid, status |-> 400,
                                   taxRows |-> <<>>, serialIds |-> <<>>]]
           ELSE /\ inflight' = [inflight EXCEPT ![slot] =
                                  [pc |-> "nextSerial", invoiceid |-> invoiceid,
                                   taxRows |-> taxRows]]
                /\ UNCHANGED res
  /\ UNCHANGED <<otherTables, Invoice, InvoiceItem, InvoiceTax, Adjustment, Payments,
                 unadjamt>>

\* queryGetNextSerial
SaveInvoiceTaxNextSerial(slot) ==
  LET req == inflight[slot]
  IN  /\ req.pc = "nextSerial"
      /\ inflight' = [inflight EXCEPT ![slot] =
                        [pc |-> "insertTax", invoiceid |-> req.invoiceid,
                         taxRows |-> req.taxRows,
                         nextSerial |-> NextSerial(InvoiceTax, req.invoiceid),
                         serialIds |-> <<>>]]
      /\ UNCHANGED <<otherTables, Invoice, InvoiceItem, InvoiceTax, Adjustment,
                     Payments, unadjamt, res>>

\* one turn of the insert loop; the answer follows the last turn
SaveInvoiceTaxInsert(slot) ==
  LET req == inflight[slot]
      index == Len(req.serialIds)
      serial == req.nextSerial + index
      row == req.taxRows[index + 1]
      serialIds == Append(req.serialIds, serial)
  IN  /\ req.pc = "insertTax"
      /\ InvoiceTax' = Append(InvoiceTax,
                              [invid |-> req.invoiceid, sr |-> serial,
                               percentage |-> row.percentage, cgst |-> row.cgst,
                               sgst |-> row.sgst, igst |-> row.igst])
      /\ IF Len(serialIds) = Len(req.taxRows)
         THEN /\ res' = [op |-> "SaveInvoiceTax", status |-> 200,
                         invoiceid |-> req.invoiceid, serialIds |-> serialIds]
              /\ inflight' = [inflight EXCEPT ![slot] =
                                [pc |-> "done", op |-> "SaveInvoiceTax",
                                 invoiceid |-> req.invoiceid, status |-> 200,
                                 taxRows |-> req.taxRows, serialIds |-> serialIds]]
         ELSE /\ inflight' = [inflight EXCEPT ![slot].serialIds = serialIds]
              /\ UNCHANGED res
      /\ UNCHANGED <<otherTables, Invoice, InvoiceItem, Adjustment, Payments, unadjamt>>

(***************************************************************************)
(* Registration: OTP verification and the account it creates.              *)
(***************************************************************************)
RegIds == {0, 1, 2}
Otps == {"1111111111", "2222222222"}

\* the row SaveReg inserts: OTPs generated, nothing verified, no user yet
NewRegistration ==
  [emailid |-> "a@example.com", mobileno |-> "9000000001", company |-> "Acme",
   emailotp |-> "1111111111", mobileotp |-> "2222222222",
   emailverified |-> FALSE, mobileverified |-> FALSE, userid |-> 0]

\* SELECT emailotp, emailverified (or mobileotp, mobileverified) FROM "Registration"
VerifySelect(slot, op, ver_type, regid, otp) ==
  /\ inflight[slot].pc = "idle"
  /\ IF regid = 0
     THEN /\ res' = [op |-> op, status |-> 400]
          /\ UNCHANGED inflight
     ELSE IF regid \notin 1 .. Len(Registration)
     THEN /\ res' = [op |-> op, status |-> 404]
          /\ UNCHANGED inflight
     ELSE /\ inflight' = [inflight EXCEPT ![slot] =
               [pc |-> "checkOTP", op |-> op, ver_type |-> ver_type, regid |-> regid,
                otp |-> otp,
                stored |-> IF ver_type = "E" THEN Registration[regid].emailotp
                           ELSE Registration[regid].mobileotp,
                verified |-> IF ver_type = "E" THEN Registration[regid].emailverified
                             ELSE Registration[regid].mobileverified]]
          /\ UNCHANGED res
  /\ UNCHANGED <<Invoice, InvoiceItem, InvoiceTax, Adjustment, Payments, unadjamt,
                 Registration, Users, CompanyInserted, PayMode>>

\* the comparison with the OTP read, the UPDATE of the verified flag, the call of
\* createUserAndCompany (not awaited: the slot carries it on) and the answer
VerifyUpdate(slot, ver_type) ==
  LET req == inflight[slot]
  IN  /\ req.pc = "checkOTP"
      /\ req.ver_type = ver_type
      /\ IF req.stored = req.otp
         THEN /\ res' = [op |-> req.op, status |-> 200, verified |-> TRUE]
              /\ IF ~req.verified
                 THEN /\ Registration' =
                           IF ver_type = "E"
                           THEN [Registration EXCEPT ![req.regid].emailverified = TRUE]
                           ELSE [Registration EXCEPT ![req.regid].mobileverified = TRUE]
                      /\ inflight' = [inflight EXCEPT ![slot] =
                                        [pc |-> "createUser", regid |-> req.regid,
                                         ver_type |-> ver_type]]
                 ELSE /\ inflight' = [inflight EXCEPT ![slot] = Idle]
                      /\ UNCHANGED Registration
         ELSE /\ res' = [op |-> req.op, status |-> 200, verified |-> FALSE]
              /\ inflight' = [inflight EXCEPT ![slot] = Idle]
              /\ UNCHANGED Registration
      /\ UNCHANGED <<Invoice, InvoiceItem, InvoiceTax, Adjustment, Payments, unadjamt,
                     Users, CompanyInserted, PayMode>>

VerifyEmailOTPSelect(slot, regid, otp) ==
  VerifySelect(slot, "VerifyEmailOTP", "E", regid, otp)

VerifyEmailOTPUpdate(slot) == VerifyUpdate(slot, "E")

VerifyMobileOTPSelect(slot, regid, otp) ==
  VerifySelect(slot, "VerifyMobileOTP", "M", regid, otp)

VerifyMobileOTPUpdate(slot) == VerifyUpdate(slot, "M")

\* the Users row of createUserAndCompany, before its compid is set
NewUser(registration, ver_type) ==
  [emailid |-> registration.emailid, mobileno |-> registration.mobileno,
   company |-> registration.company, usertype |-> "A",
   emailverified |-> (ver_type = "M"),
   mobileverified |-> (ver_type = "E"),
   lastveremail |-> IF ver_type = "M" THEN registration.emailid ELSE "",
   lastvermobile |-> IF ver_type = "E" THEN registration.mobileno ELSE "",
   compid |-> 0]

\* createUserAndCompany: its statements write only the rows it creates and
\* Registration.userid, so they are taken in one step
createUserAndCompany(slot) ==
  LET req == inflight[slot]
      userId == Len(Users) + 1
      companyId == Len(CompanyInserted) + 1
  IN  /\ req.pc = "createUser"
      /\ Users' = Append(Users, [NewUser(Registration[req.regid], req.ver_type)
                                   EXCEPT !.compid = companyId])
      /\ CompanyInserted' = Append(CompanyInserted,
                                   [compname |-> Registration[req.regid].company])
      /\ Registration' = [Registration EXCEPT ![req.regid].userid = userId]
      /\ inflight' = [inflight EXCEPT ![slot] = Idle]
      /\ UNCHANGED <<Invoice, InvoiceItem, InvoiceTax, Adjustment, Payments, unadjamt,
                     PayMode, res>>

(***************************************************************************)
(* Pay modes.                                                              *)
(***************************************************************************)
PayModeNames == {"", "Cash", " cash ", "UPI"}
PayModeIds == {0, 1, 3}
PayModeComps == {0, 1, 2}

\* TRIM(...) ILIKE ...: the name without surrounding blanks, letter case ignored
TrimLower(paymodename) ==
  IF paymodename \in {"Cash", " cash "} THEN "cash" ELSE "upi"

\* res.status(...).json(...) in the order the handler calls them; the first is
\* the one the client receives
Send(statuses) ==
  [op |-> "SavePayMode", status |-> statuses[1], sends |-> statuses]

SavePayMode(paymodeid, paymodename, compid, fails) ==
  LET pExists == {n \in 1 .. Len(PayMode) :
                    /\ TrimLower(PayMode[n].paymodename) = TrimLower(paymodename)
                    /\ PayMode[n].compid = compid}
      newRow == [paymodename |-> paymodename, compid |-> compid]
  IN  /\ IF paymodename = "" \/ compid = 0
         THEN /\ res' = Send(<<400>>)
              /\ UNCHANGED PayMode
         ELSE IF fails
         THEN /\ res' = Send(<<500>>)
              /\ UNCHANGED PayMode
         ELSE IF pExists # {}
         THEN /\ PayMode' = [n \in 1 .. Len(PayMode) |->
                               IF n \in pExists
                               THEN [PayMode[n] EXCEPT !.paymodename = paymodename]
                               ELSE PayMode[n]]
              /\ res' = Send(<<201, 200, 500>>)
         ELSE IF paymodeid > 0 /\ paymodeid \in 1 .. Len(PayMode)
         THEN /\ PayMode' = [PayMode EXCEPT ![paymodeid].paymodename = paymodename]
              /\ res' = Send(<<200>>)
         ELSE /\ Len(PayMode) < MaxPayModes
              /\ PayMode' = Append(PayMode, newRow)
              /\ res' = Send(<<200>>)
      /\ UNCHANGED <<Invoice, InvoiceItem, InvoiceTax, Adjustment, Payments, unadjamt,
                     Registration, Users, CompanyInserted, inflight>>

(***************************************************************************)
(* Specifications.                                                         *)
(*                                                                         *)
(* SpecCalc: the calculator's requests.  It starts from the states         *)
(* SaveInvoiceDet leaves behind after creating one invoice, for every      *)
(* seller company and customer (present or without a row).                 *)
(*                                                                         *)
(* SpecLedger: the ledger's requests, from the empty database.             *)
(***************************************************************************)
InitCalc ==
  /\ \E compid \in CompIds, custid \in CustIds :
       Invoice = <<[compid |-> compid, custid |-> custid,
                    total |-> 1180, amtdue |-> 1180]>>
  /\ InvoiceItem = <<>>
  /\ InvoiceTax = <<>>
  /\ Adjustment = <<>>
  /\ Payments = <<>>
  /\ unadjamt = [custid \in DOMAIN Customer |-> 0]
  /\ inflight = [slot \in 1 .. 2 |-> Idle]
  /\ Registration = <<>>
  /\ Users = <<>>
  /\ CompanyInserted = <<>>
  /\ PayMode = <<>>
  /\ res = [op |-> "SaveInvoiceDet", status |-> 200, invid |-> 1, created |-> TRUE]

NextCalc ==
  \/ \E invoiceid \in 0 .. MaxInvoices + 1, itemid \in ItemIds,
        quantity \in Quantities, rate \in Rates, discount \in LineDiscounts :
       SaveInvoiceItem(invoiceid, itemid, quantity, rate, discount)
  \/ \E compid \in CompIds, custid \in CustIds, itemid \in ItemIds,
        quantity \in Quantities, discount \in Discounts :
       GetInvoiceItemTaxDetails(compid, custid, itemid, quantity, discount)

SpecCalc == InitCalc /\ [][NextCalc]_vars

NextLedger ==
  \/ \E invid \in 0 .. MaxInvoices + 1, hasInvNo \in BOOLEAN, total \in Totals :
       SaveInvoiceDet(invid, hasInvNo, 1, 1, total)
  \/ \E invid \in 1 .. MaxInvoices + 1, payid \in PayIds, adjustamt \in AdjustAmts :
       SaveAdjustment(invid, payid, adjustamt)
  \/ \E payid \in PayIds : DeleteAdjustment(payid)

SpecLedger == Init /\ [][NextLedger]_vars

\* SpecReport: the ledger of company 1 together with the two status reports.
NextReport ==
  \/ \E invid \in 0 .. MaxInvoices + 1, total \in Totals :
       SaveInvoiceDet(invid, TRUE, 1, 1, total)
  \/ \E invid \in 1 .. MaxInvoices, adjustamt \in AdjustAmts :
       SaveAdjustment(invid, 1, adjustamt)
  \/ \E compid \in {1, 2} : GetInvDetails(compid)
  \/ \E compid \in {1, 2} : GetRecSum(compid)

SpecReport == Init /\ [][NextReport]_vars

\* SpecPay: payments, adjustments against them and the customers' unadjusted
\* balance, from the state with one invoice of customer 1.
InitPay ==
  /\ Invoice = <<NewInvoiceRow(1, 1, 1180)>>
  /\ InvoiceItem = <<>>
  /\ InvoiceTax = <<>>
  /\ Adjustment = <<>>
  /\ Payments = <<>>
  /\ unadjamt = [custid \in DOMAIN Customer |-> 0]
  /\ inflight = [slot \in 1 .. 2 |-> Idle]
  /\ Registration = <<>>
  /\ Users = <<>>
  /\ CompanyInserted = <<>>
  /\ PayMode = <<>>
  /\ res = [op |-> "SaveInvoiceDet", status |-> 200, invid |-> 1, created |-> TRUE]

NextPay ==
  \/ \E payid \in 0 .. MaxPayments + 1, custid \in DOMAIN Customer,
        payamount \in PayAmounts, unadjustamt \in UnadjustAmts :
       SavePayment(payid, custid, payamount, unadjustamt)
  \/ \E custid \in PayCustIds : UpdateCustUnadjBal(custid)
  \/ \E payid \in PayIds : SaveAdjustment(1, payid, 500)
  \/ \E payid \in PayIds : DeleteAdjustment(payid)

SpecPay == InitPay /\ [][NextPay]_vars

\* SpecAdjRace: two SaveAdjustment requests, one per slot, whose statements
\* interleave in any order.  The invoice of total 1180 starts either without
\* adjustments or with an earlier adjustment of 500 already recorded.
InitAdjRace ==
  /\ \E earlier \in {<<>>, <<[invid |-> 1, payid |-> 1, adjustamt |-> 500]>>} :
       /\ Adjustment = earlier
       /\ Invoice = UpdateAmtDue(<<NewInvoiceRow(1, 1, 1180)>>, earlier, 1)
  /\ InvoiceItem = <<>>
  /\ InvoiceTax = <<>>
  /\ Payments = <<>>
  /\ unadjamt = [custid \in DOMAIN Customer |-> 0]
  /\ inflight = [slot \in 1 .. 2 |-> Idle]
  /\ Registration = <<>>
  /\ Users = <<>>
  /\ CompanyInserted = <<>>
  /\ PayMode = <<>>
  /\ res = [op |-> "SaveInvoiceDet", status |-> 200, invid |-> 1, created |-> TRUE]

NextAdjRace ==
  \/ \E slot \in 1 .. 2, invid \in 1 .. MaxInvoices + 1, payid \in PayIds,
        adjustamt \in AdjustAmts :
       SaveAdjustmentInsert(slot, invid, payid, adjustamt)
  \/ \E slot \in 1 .. 2 : SaveAdjustmentUpdate(slot)

SpecAdjRace == InitAdjRace /\ [][NextAdjRace]_vars

\* SpecDelRace: as SpecAdjRace, with DeleteAdjustment requests arriving between
\* the statements of the SaveAdjustment requests.
NextDelRace ==
  \/ NextAdjRace
  \/ \E payid \in PayIds : DeleteAdjustment(payid)

SpecDelRace == InitAdjRace /\ [][NextDelRace]_vars

\* SpecCustRace: an UpdateCustUnadjBal and a SavePayment request (or two of a
\* kind), one per slot, whose statements interleave in any order.  Customer 1
\* starts with one payment of unadjustamt 500 and unadjamt recomputed to 500.
InitCustRace ==
  /\ Invoice = <<>>
  /\ InvoiceItem = <<>>
  /\ InvoiceTax = <<>>
  /\ Adjustment = <<>>
  /\ Payments = WritePayment(<<>>, FALSE, 0, 1, 1000, 500)
  /\ unadjamt = UpdateCustomer([custid \in DOMAIN Customer |-> 0], 1, 500)
  /\ inflight = [slot \in 1 .. 2 |-> Idle]
  /\ Registration = <<>>
  /\ Users = <<>>
  /\ CompanyInserted = <<>>
  /\ PayMode = <<>>
  /\ res = [op |-> "UpdateCustUnadjBal", status |-> 200, custid |-> 1]

NextCustRace ==
  \/ \E slot \in 1 .. 2, payid \in 0 .. MaxPayments + 1, custid \in PayCustIds,
        payamount \in PayAmounts, unadjustamt \in UnadjustAmts :
       SavePaymentSelect(slot, payid, custid, payamount, unadjustamt)
  \/ \E slot \in 1 .. 2 : SavePaymentWrite(slot)
  \/ \E slot \in 1 .. 2, custid \in PayCustIds : UpdateCustUnadjBalSelect(slot, custid)
  \/ \E slot \in 1 .. 2 : UpdateCustUnadjBalUpdate(slot)

SpecCustRace == InitCustRace /\ [][NextCustRace]_vars

\* SpecTax: two SaveInvoiceTax requests, one per slot, on an invoice of company 1
\* that already has up to MaxTaxItems lines saved by SaveInvoiceItem.
TaxLines == {1, 2, 3} \X Quantities \X Rates \X LineDiscounts

InitTax ==
  /\ \E custid \in DOMAIN Customer : Invoice = <<NewInvoiceRow(1, custid, 1180)>>
  /\ \E n \in 0 .. MaxTaxItems : \E line \in [1 .. n -> TaxLines] :
       InvoiceItem = [i \in 1 .. n |->
                        NewInvoiceItemRow(Invoice, 1, line[i][1], line[i][2],
                                          line[i][3], line[i][4])]
  /\ InvoiceTax = <<>>
  /\ Adjustment = <<>>
  /\ Payments = <<>>
  /\ unadjamt = [custid \in DOMAIN Customer |-> 0]
  /\ inflight = [slot \in 1 .. 2 |-> Idle]
  /\ Registration = <<>>
  /\ Users = <<>>
  /\ CompanyInserted = <<>>
  /\ PayMode = <<>>
  /\ res = Respond("SaveInvoiceItem", 200)

NextTax ==
  \/ \E slot \in 1 .. 2, invoiceid \in 1 .. MaxInvoices + 1 :
       SaveInvoiceTaxSelect(slot, invoiceid)
  \/ \E slot \in 1 .. 2 : SaveInvoiceTaxNextSerial(slot)
  \/ \E slot \in 1 .. 2 : SaveInvoiceTaxInsert(slot)

SpecTax == InitTax /\ [][NextTax]_vars

\* SpecTaxDet: as SpecTax, with updates of the invoice by SaveInvoiceDet
\* arriving between the statements of the SaveInvoiceTax requests.
NextTaxDet ==
  \/ NextTax
  \/ \E custid \in DOMAIN Customer : SaveInvoiceDet(1, TRUE, 1, custid, 1180)

SpecTaxDet == InitTax /\ [][NextTaxDet]_vars

\* SpecRegister: OTP verifications of one registration saved by SaveReg, two
\* requests at a time, and the account creations they start.
InitRegister ==
  /\ Invoice = <<>>
  /\ InvoiceItem = <<>>
  /\ InvoiceTax = <<>>
  /\ Adjustment = <<>>
  /\ Payments = <<>>
  /\ unadjamt = [custid \in DOMAIN Customer |-> 0]
  /\ inflight = [slot \in 1 .. 2 |-> Idle]
  /\ Registration = <<NewRegistration>>
  /\ Users = <<>>
  /\ CompanyInserted = <<>>
  /\ PayMode = <<>>
  /\ res = [op |-> "SaveReg", status |-> 200]

NextRegister ==
  \/ \E slot \in 1 .. 2, regid \in RegIds, otp \in Otps :
       VerifyEmailOTPSelect(slot, regid, otp)
  \/ \E slot \in 1 .. 2 : VerifyEmailOTPUpdate(slot)
  \/ \E slot \in 1 .. 2, regid \in RegIds, otp \in Otps :
       VerifyMobileOTPSelect(slot, regid, otp)
  \/ \E slot \in 1 .. 2 : VerifyMobileOTPUpdate(slot)
  \/ \E slot \in 1 .. 2 : createUserAndCompany(slot)

SpecRegister == InitRegister /\ [][NextRegister]_vars

\* SpecPayMode: SavePayMode requests on an empty PayMode table.
NextPayMode ==
  \E paymodeid \in PayModeIds, paymodename \in PayModeNames, compid \in PayModeComps,
     fails \in BOOLEAN :
    SavePayMode(paymodeid, paymodename, compid, fails)

SpecPayMode == Init /\ [][NextPayMode]_vars

(***************************************************************************)
(* Properties of the line-item tax calculator (checked under SpecCalc).    *)
(***************************************************************************)
LocationResolved(compid, custid) ==
  compid \in DOMAIN Company /\ custid \in DOMAIN Customer

IntraState(compid, custid) ==
  /\ LocationResolved(compid, custid)
  /\ Company[compid].stateid = Customer[custid].placeofsupply

InterState(compid, custid) ==
  /\ LocationResolved(compid, custid)
  /\ Company[compid].stateid # Customer[custid].placeofsupply

Half(taxrate) == RDiv(Rat(taxrate), Rat(2))

\* the share of the taxable base at a given percentage
TaxOn(base, percent) == RDiv(RMul(Rat(base), percent), Rat(100))

IsTaxDetails == res.op = "GetInvoiceItemTaxDetails" /\ res.status = 200

RowCompany(r) == Invoice[r.invoiceid].compid
RowCustomer(r) == Invoice[r.invoiceid].custid
Rows == {InvoiceItem[i] : i \in 1 .. Len(InvoiceItem)}

\* C1: intra-state split. Every persisted line item whose seller state equals
\* the customer's place of supply has igstper = 0 and cgstper = sgstper =
\* taxrate / 2, and every preview for such a pair answers IGST = 0 and
\* CGST = SGST = the taxable base at taxrate / 2 percent.
C1_IntraStateSplit ==
  /\ \A r \in Rows :
       IntraState(RowCompany(r), RowCustomer(r)) =>
         /\ r.igstper = Zero
         /\ r.cgstper = Half(TaxRateOf(r.itemid))
         /\ r.sgstper = Half(TaxRateOf(r.itemid))
  /\ (IsTaxDetails /\ IntraState(res.req.compid, res.req.custid)) =>
       LET base == res.body.Amount - res.req.discount
           half == Half(TaxRateOf(res.req.itemid))
       IN  /\ res.body.IGST = Zero
           /\ res.body.CGST = TaxOn(base, half)
           /\ res.body.SGST = TaxOn(base, half)

\* C2: inter-state split. Every persisted line item whose seller state differs
\* from the customer's place of supply has cgstper = sgstper = 0 and igstper =
\* taxrate, and every preview for such a pair answers CGST = SGST = 0 and
\* IGST = the taxable base at taxrate percent.
C2_InterStateSplit ==
  /\ \A r \in Rows :
       InterState(RowCompany(r), RowCustomer(r)) =>
         /\ r.cgstper = Zero
         /\ r.sgstper = Zero
         /\ r.igstper = Rat(TaxRateOf(r.itemid))
  /\ (IsTaxDetails /\ InterState(res.req.compid, res.req.custid)) =>
       LET base == res.body.Amount - res.req.discount
       IN  /\ res.body.CGST = Zero
           /\ res.body.SGST = Zero
           /\ res.body.IGST = TaxOn(base, Rat(TaxRateOf(res.req.itemid)))

\* C3: tax-rate conservation. On every persisted line item
\* cgstper + sgstper + igstper equals the item's tax rate, whatever the seller
\* state and the place of supply are.
C3_TaxRateConservation ==
  \A r \in Rows :
    RAdd(RAdd(r.cgstper, r.sgstper), r.igstper) = Rat(TaxRateOf(r.itemid))

\* a line item of the 5% item split into two halves of 2.5%
C3_Witness ==
  \E r \in Rows : r.itemid = 2 /\ r.cgstper = <<5, 2>> /\ r.sgstper = <<5, 2>>

\* C4 as stated: every persisted line item has exactly one of
\* cgstper + sgstper and igstper non-zero, never both and never neither.
C4_ExactlyOneRegime ==
  \A r \in Rows :
    (RAdd(r.cgstper, r.sgstper) # Zero) # (r.igstper # Zero)

\* C4 amended: no persisted line item has both cgstper + sgstper and igstper
\* non-zero, and one of them is non-zero exactly when the item's tax rate is
\* non-zero (a zero-rated or unknown item gives an all-zero line).
C4_AtMostOneRegime ==
  \A r \in Rows :
    /\ ~(RAdd(r.cgstper, r.sgstper) # Zero /\ r.igstper # Zero)
    /\ (RAdd(r.cgstper, r.sgstper) # Zero \/ r.igstper # Zero)
         <=> (TaxRateOf(r.itemid) # 0)

\* a taxed line item that carries IGST only
C4_Witness ==
  \E r \in Rows :
    TaxRateOf(r.itemid) # 0 /\ r.igstper # Zero /\ r.cgstper = Zero /\ r.sgstper = Zero

\* C5: line arithmetic. Every persisted line item has amount = quantity * rate,
\* taxtotal = (amount - discount) * (cgstper + sgstper + igstper) / 100 and
\* total = amount - discount + taxtotal.
C5_LineArithmetic ==
  \A r \in Rows :
    /\ r.amount = r.quantity * r.rate
    /\ r.taxtotal = TaxOn(r.amount - r.discount,
                          RAdd(RAdd(r.cgstper, r.sgstper), r.igstper))
    /\ r.total = RAdd(Rat(r.amount - r.discount), r.taxtotal)

\* a discounted line item taxed with CGST and SGST
C5_Witness ==
  \E r \in Rows :
    r.discount # 0 /\ r.quantity = 2 /\ r.sgstper # Zero /\ r.taxtotal # Zero

\* two previews of the same item, quantity and discount
SamePreviewedLine(a, b) ==
  /\ a.itemid = b.itemid
  /\ a.quantity = b.quantity
  /\ a.discount = b.discount

\* a preview that follows a preview of the same line answers the same totals
C6_RegimeIndependentStep ==
  (/\ IsTaxDetails
   /\ res'.op = "GetInvoiceItemTaxDetails" /\ res'.status = 200
   /\ SamePreviewedLine(res.req, res'.req))
  => /\ res'.body.TaxTotal = res.body.TaxTotal
     /\ res'.body.Total = res.body.Total

\* sell price 1000 at 18%: TaxTotal 180 and Total 1180
C6_Example ==
  (IsTaxDetails /\ res.req.itemid = 1 /\ res.req.quantity = 1 /\ res.req.discount = 0)
  => (res.body.TaxTotal = Rat(180) /\ res.body.Total = Rat(1180))

\* C6: regime independence of the total. Two successive previews of the same
\* item, quantity and discount answer the same TaxTotal and Total whatever
\* the company and customer are; and the preview of item 1 (sell price 1000,
\* 18%) with quantity 1 and no discount answers TaxTotal 180 and Total 1180.
C6_RegimeIndependence == [][C6_RegimeIndependentStep]_vars /\ []C6_Example

\* a discounted preview taxed in full as IGST
C6_Witness ==
  /\ IsTaxDetails
  /\ res.req.itemid = 1 /\ res.req.quantity = 2 /\ res.req.discount = 100
  /\ res.body.IGST = Rat(342) /\ res.body.CGST = Zero
  /\ res.body.TaxTotal = Rat(342) /\ res.body.Total = Rat(2242)

\* C7: missing location fails fast. No line item is persisted for an invoice
\* whose company or customer has no row, and no preview for such a company or
\* customer is answered with a computed line.
C7_MissingLocationFailsFast ==
  /\ \A r \in Rows : LocationResolved(RowCompany(r), RowCustomer(r))
  /\ (res.op = "GetInvoiceItemTaxDetails"
      /\ ~LocationResolved(res.req.compid, res.req.custid)) => res.status # 200

(***************************************************************************)
(* Properties of the ledger (checked under SpecLedger).                    *)
(***************************************************************************)
\* C8: initial balance. Right after SaveInvoiceDet has created an invoice, the
\* invoice's amtdue equals its total.
C8_InitialBalance ==
  (res.op = "SaveInvoiceDet" /\ res.status = 200 /\ res.created) =>
    Invoice[res.invid].amtdue = Invoice[res.invid].total

\* an invoice of total 2000 was just created
C8_Witness ==
  /\ res.op = "SaveInvoiceDet" /\ res.status = 200 /\ res.created
  /\ Invoice[res.invid].total = 2000

\* the adjustamt of the Adjustment rows stored for an invoice, added up
RECURSIVE Adjusted(_, _)
Adjusted(n, invid) ==
  IF n = 0 THEN 0
  ELSE Adjusted(n - 1, invid)
       + (IF Adjustment[n].invid = invid THEN Adjustment[n].adjustamt ELSE 0)

\* C9: recompute by resummation. Right after a SaveAdjustment on an existing
\* invoice, the invoice's amtdue is its total minus the sum of adjustamt over
\* all Adjustment rows of that invoice, the new row included.
C9_RecomputeByResummation ==
  (res.op = "SaveAdjustment" /\ res.status = 200 /\ res.updated) =>
    Invoice[res.invid].amtdue
      = Invoice[res.invid].total - Adjusted(Len(Adjustment), res.invid)

\* a second adjustment on an invoice: 1180 - 500 - 680 = 0
C9_Witness ==
  /\ res.op = "SaveAdjustment" /\ res.status = 200 /\ res.updated
  /\ Len(Adjustment) = 2
  /\ Adjusted(Len(Adjustment), res.invid) = 1180
  /\ Invoice[res.invid].amtdue = 0

\* C10: ledger invariant. In every state every invoice has
\* amtdue = total - sum of adjustamt of the Adjustment rows stored for it.
C10_LedgerInvariant ==
  \A invid \in 1 .. Len(Invoice) :
    Invoice[invid].amtdue = Invoice[invid].total - Adjusted(Len(Adjustment), invid)

(***************************************************************************)
(* Concurrency, payments and payment status.                               *)
(***************************************************************************)
AllDone == \A slot \in 1 .. 2 : inflight[slot].pc = "done"

RECURSIVE Unadjusted(_, _)
Unadjusted(n, custid) ==
  IF n = 0 THEN 0
  ELSE Unadjusted(n - 1, custid)
       + (IF Payments[n].custid = custid THEN Payments[n].unadjustamt ELSE 0)

AdjustAmtsOf(invid) ==
  LET rows == SelectSeq(Adjustment, LAMBDA r : r.invid = invid)
  IN  [n \in 1 .. Len(rows) |-> rows[n].adjustamt]

\* the derived payment status of an invoice
PaymentStatus(total, amtdue) ==
  IF amtdue = total THEN "NotPaid"
  ELSE IF 0 < amtdue /\ amtdue < total THEN "PartiallyPaid"
  ELSE IF amtdue <= 0 THEN "FullyPaid"
  ELSE "None"

\* the status a report's label stands for
Label(text) ==
  IF text \in {"Not paid", "Not Paid"} THEN "NotPaid"
  ELSE IF text \in {"Partial Paid", "Partially Paid"} THEN "PartiallyPaid"
  ELSE "FullyPaid"

\* C11: no lost update on one invoice. Once two SaveAdjustment requests on
\* the same existing invoice, their INSERT and UPDATE statements interleaved
\* in any order, have both answered, the invoice's amtdue is its total minus
\* the sum of all its adjustments, the two new ones and the earlier ones.
C11_NoLostUpdate ==
  (/\ AllDone
   /\ inflight[1].invid = inflight[2].invid
   /\ InvoiceExists(inflight[1].invid)) =>
    Invoice[inflight[1].invid].amtdue
      = Invoice[inflight[1].invid].total
          - Adjusted(Len(Adjustment), inflight[1].invid)

\* both requests inserted before either updated: each UPDATE summed the
\* earlier adjustment and both new ones
C11_Witness ==
  /\ AllDone
  /\ inflight[1].invid = 1 /\ inflight[2].invid = 1
  /\ inflight[1].rows = 3 /\ inflight[2].rows = 3
  /\ Len(Adjustment) = 3
  /\ Invoice[1].amtdue = 1180 - Adjusted(3, 1)

\* C12: the customer recomputation is atomic. The value an UpdateCustUnadjBal
\* request writes to Customer.unadjamt is the sum of unadjustamt over the
\* customer's Payments rows as they are when it is written, never a sum read
\* before a concurrent payment write.
C12_AtomicCustomerRecompute ==
  [][\A slot \in 1 .. 2 :
       (/\ inflight[slot].pc = "updateCustomer"
        /\ inflight'[slot].pc = "done"
        /\ inflight[slot].custid \in DOMAIN unadjamt) =>
         unadjamt'[inflight[slot].custid]
           = Unadjusted(Len(Payments), inflight[slot].custid)]_vars

\* C13: customer unadjusted balance. An UpdateCustUnadjBal(custid) that runs
\* alone leaves that customer's unadjamt equal to the sum of unadjustamt over
\* all Payments rows of the customer (0 without payments) and every other
\* customer's unadjamt as it was.
C13_CustomerBalance ==
  [][res'.op = "UpdateCustUnadjBal" =>
       \A custid \in DOMAIN unadjamt :
         unadjamt'[custid] = IF custid = res'.custid
                             THEN Unadjusted(Len(Payments), custid)
                             ELSE unadjamt[custid]]_vars

\* customer 1 has two payments, 500 and 1000 unadjusted, and was recomputed
C13_Witness ==
  /\ res.op = "UpdateCustUnadjBal" /\ res.custid = 1
  /\ Len(Payments) = 2
  /\ Payments[1].custid = 1 /\ Payments[2].custid = 1
  /\ Payments[1].unadjustamt # Payments[2].unadjustamt
  /\ unadjamt[1] = 1500
  /\ unadjamt[3] = 0

\* C14: payment consumption. A SaveAdjustment of amount a against a stored
\* payment p decreases p's unadjustamt by a.
C14_PaymentConsumption ==
  [][(res'.op = "SaveAdjustment" /\ PaymentExists(res'.payid)) =>
       Payments'[res'.payid].unadjustamt
         = Payments[res'.payid].unadjustamt
             - Adjustment'[Len(Adjustment')].adjustamt]_vars

\* C15: ledger idempotence. Of two requests in a row that recompute the same
\* invoice's amtdue, or the same customer's unadjamt, the second changes
\* neither the recomputed value nor any Adjustment row.
C15_LedgerIdempotence ==
  [][/\ (/\ res.op = "SaveAdjustment" /\ res'.op = "SaveAdjustment"
         /\ res'.invid = res.invid /\ res.updated) =>
          (/\ Adjustment' = Adjustment
           /\ Invoice'[res.invid].amtdue = Invoice[res.invid].amtdue)
     /\ (/\ res.op = "UpdateCustUnadjBal" /\ res'.op = "UpdateCustUnadjBal"
         /\ res'.custid = res.custid) =>
          (Adjustment' = Adjustment /\ unadjamt' = unadjamt)]_vars

C17_DeletionFrame ==
  [][res'.op = "DeleteAdjustment" =>
       LET had == \E n \in 1 .. Len(Adjustment) : Adjustment[n].payid = res'.payid
       IN  /\ res'.status = IF had THEN 200 ELSE 400
           /\ Adjustment' = SelectSeq(Adjustment, LAMBDA r : r.payid # res'.payid)
           /\ ~had => Adjustment' = Adjustment
           /\ Invoice' = Invoice
           /\ Payments' = Payments
           /\ unadjamt' = unadjamt]_vars

\* payment 1's adjustment was deleted, payment 2's row remains, and the
\* invoice still shows the amtdue of both adjustments
C17_Witness ==
  /\ res.op = "DeleteAdjustment" /\ res.status = 200 /\ res.payid = 1
  /\ Len(Adjustment) = 1 /\ Adjustment[1].payid = 2
  /\ Invoice[1].amtdue = 180
  /\ Payments # <<>>
  /\ unadjamt[1] > 0

\* C18: derived payment status. Every row of GetInvDetails and of GetRecSum
\* labels its invoice NotPaid exactly when amtdue = total, PartiallyPaid
\* exactly when 0 < amtdue < total and FullyPaid exactly when amtdue <= 0.
C18_DerivedStatus ==
  res.op \in {"GetInvDetails", "GetRecSum"} =>
    \A invid \in DOMAIN res.body :
      Label(res.body[invid])
        = PaymentStatus(Invoice[invid].total, Invoice[invid].amtdue)

\* C19: status transitions. An invoice's derived payment status changes only
\* in a step that applies an adjustment and recomputes the amount due.
C19_StatusTransitions ==
  [][\A invid \in 1 .. Len(Invoice) :
       PaymentStatus(Invoice'[invid].total, Invoice'[invid].amtdue)
         # PaymentStatus(Invoice[invid].total, Invoice[invid].amtdue)
       => res'.op = "SaveAdjustment"]_vars

\* C20: end-to-end ledger scenario. Right after a SaveAdjustment on an invoice
\* of total 1180, amtdue is 680 when its only adjustment is one of 500, and
\* amtdue is 0 and the invoice FullyPaid when its adjustments are 500 then 680.
C20_EndToEnd ==
  (res.op = "SaveAdjustment" /\ res.updated /\ Invoice[res.invid].total = 1180) =>
    /\ AdjustAmtsOf(res.invid) = <<500>> => Invoice[res.invid].amtdue = 680
    /\ AdjustAmtsOf(res.invid) = <<500, 680>> =>
         /\ Invoice[res.invid].amtdue = 0
         /\ PaymentStatus(Invoice[res.invid].total, Invoice[res.invid].amtdue)
              = "FullyPaid"

\* the second adjustment, 680 after 500, was just recorded on invoice 1
C20_Witness ==
  /\ res.op = "SaveAdjustment" /\ res.invid = 1 /\ res.updated
  /\ Invoice[1].total = 1180
  /\ AdjustAmtsOf(1) = <<500, 680>>
  /\ PaymentStatus(Invoice[1].total, Invoice[1].amtdue) = "FullyPaid"

(***************************************************************************)
(* Tax rows of an invoice.                                                 *)
(***************************************************************************)
TaxTypes == {"cgst", "sgst", "igst"}

LinesOf(invoiceid) == {n \in 1 .. Len(InvoiceItem) : InvoiceItem[n].invoiceid = invoiceid}

PerOf(line, type) ==
  IF type = "cgst" THEN line.cgstper
  ELSE IF type = "sgst" THEN line.sgstper
  ELSE line.igstper

\* the distinct non-zero tax percentages among the lines of an invoice
DistinctPercentages(invoiceid) ==
  {PerOf(InvoiceItem[n], type) : n \in LinesOf(invoiceid), type \in TaxTypes} \ {Zero}

RECURSIVE SumBase(_)
SumBase(lines) ==
  IF lines = {} THEN 0
  ELSE LET n == CHOOSE m \in lines : TRUE
       IN  (InvoiceItem[n].amount - InvoiceItem[n].discount) + SumBase(lines \ {n})

\* percentage/100 times the mean taxable base of the lines taxed with the
\* given type at the given percentage, each line counted once
MeanTax(invoiceid, type, percentage) ==
  LET group == {n \in LinesOf(invoiceid) : PerOf(InvoiceItem[n], type) = percentage}
  IN  RMul(RDiv(percentage, Rat(100)),
           RDiv(Rat(SumBase(group)), Rat(Cardinality(group))))

RLess(x, y) == x[1] * y[2] < y[1] * x[2]

TaxSaved(slot) ==
  /\ inflight[slot].pc = "done"
  /\ inflight[slot].op = "SaveInvoiceTax"
  /\ inflight[slot].status = 200

\* C21: one tax row per percentage. The rows a SaveInvoiceTax run inserts are
\* one for each distinct non-zero percentage among the invoice's lines, and
\* the row of a percentage carries the aggregated value of every tax type
\* that has a group at that percentage.
C21_OneRowPerPercentage ==
  \A slot \in 1 .. 2 :
    TaxSaved(slot) =>
      LET rows == inflight[slot].taxRows
          invoiceid == inflight[slot].invoiceid
      IN  /\ {rows[k].percentage : k \in 1 .. Len(rows)} = DistinctPercentages(invoiceid)
          /\ Len(rows) = Cardinality(DistinctPercentages(invoiceid))
          /\ \A k \in 1 .. Len(rows) :
               \A q \in QueryItems(InvoiceItem, invoiceid) :
                 q.percentage = rows[k].percentage =>
                   /\ q.cgst # Zero => rows[k].cgst = q.cgst
                   /\ q.sgst # Zero => rows[k].sgst = q.sgst
                   /\ q.igst # Zero => rows[k].igst = q.igst

\* C22: serial numbering. No two InvoiceTax rows of one invoice share a serial
\* and every serial is at least 1.
C22_SerialNumbering ==
  \A n, m \in 1 .. Len(InvoiceTax) :
    /\ InvoiceTax[n].sr >= 1
    /\ (InvoiceTax[n].invid = InvoiceTax[m].invid /\ InvoiceTax[n].sr = InvoiceTax[m].sr)
         => n = m

\* C23: averaged aggregation. Every non-zero value of a row SaveInvoiceTax
\* stores is percentage/100 times the mean taxable base over all lines of the
\* invoice taxed with that type at that percentage, each line counted once.
C23_AveragedAggregation ==
  \A slot \in 1 .. 2 :
    TaxSaved(slot) =>
      LET rows == inflight[slot].taxRows
          invoiceid == inflight[slot].invoiceid
      IN  \A k \in 1 .. Len(rows) :
            /\ rows[k].cgst # Zero =>
                 rows[k].cgst = MeanTax(invoiceid, "cgst", rows[k].percentage)
            /\ rows[k].sgst # Zero =>
                 rows[k].sgst = MeanTax(invoiceid, "sgst", rows[k].percentage)
            /\ rows[k].igst # Zero =>
                 rows[k].igst = MeanTax(invoiceid, "igst", rows[k].percentage)

\* C24: aggregation determinism. Two SaveInvoiceTax runs on the same lines of
\* an invoice yield the same rows in the same order, ascending by percentage.
C24_AggregationDeterminism ==
  (TaxSaved(1) /\ TaxSaved(2) /\ inflight[1].invoiceid = inflight[2].invoiceid) =>
    /\ inflight[1].taxRows = inflight[2].taxRows
    /\ \A slot \in 1 .. 2 :
         \A k \in 1 .. Len(inflight[slot].taxRows) - 1 :
           RLess(inflight[slot].taxRows[k].percentage,
                 inflight[slot].taxRows[k + 1].percentage)

C26_AbsentReferencesRejected ==
  /\ \A n \in 1 .. Len(Adjustment) : InvoiceExists(Adjustment[n].invid)
  /\ (res.op = "SaveAdjustment" /\ ~InvoiceExists(res.invid)) => res.status # 200
  /\ \A n \in 1 .. Len(InvoiceItem) : InvoiceItem[n].itemid \in DOMAIN Items

\* the persisted lines that the previewed request describes: same company,
\* customer, item, quantity and discount, saved at the item's sellprice
PreviewedLines ==
  {n \in 1 .. Len(InvoiceItem) :
     /\ Invoice[InvoiceItem[n].invoiceid].compid = res.req.compid
     /\ Invoice[InvoiceItem[n].invoiceid].custid = res.req.custid
     /\ InvoiceItem[n].itemid = res.req.itemid
     /\ InvoiceItem[n].quantity = res.req.quantity
     /\ InvoiceItem[n].discount = res.req.discount
     /\ InvoiceItem[n].rate = SellPriceOf(InvoiceItem[n].itemid)}

\* C29: preview equals persisted line. The Amount, TaxTotal and Total that
\* GetInvoiceItemTaxDetails answers equal the amount, taxtotal and total of
\* every InvoiceItem row saved for the same company, customer, item, quantity
\* and discount at the item's sellprice.
C29_PreviewEqualsPersisted ==
  IsTaxDetails =>
    \A n \in PreviewedLines :
      /\ res.body.Amount = InvoiceItem[n].amount
      /\ res.body.TaxTotal = InvoiceItem[n].taxtotal
      /\ res.body.Total = InvoiceItem[n].total

\* a line of item 1 at its sellprice 1000 with discount 100 was saved and
\* then previewed: 900 taxable, 162 tax
C29_Witness ==
  /\ IsTaxDetails
  /\ PreviewedLines # {}
  /\ res.req.itemid = 1 /\ res.req.quantity = 1
  /\ res.body.TaxTotal = Rat(162)
  /\ res.body.Total = Rat(1062)

(***************************************************************************)
(* Registration and pay modes.                                             *)
(***************************************************************************)
UsersOf(regid) ==
  {n \in 1 .. Len(Users) : Users[n].emailid = Registration[regid].emailid}

CompaniesOf(regid) ==
  {n \in 1 .. Len(CompanyInserted) :
     CompanyInserted[n].compname = Registration[regid].company}

\* C27: at most one account per registration. In every state at most one
\* Users row and at most one Company row have been created for a registration.
C27_AtMostOneAccount ==
  \A regid \in 1 .. Len(Registration) :
    /\ Cardinality(UsersOf(regid)) <= 1
    /\ Cardinality(CompaniesOf(regid)) <= 1

\* C28: verified flags follow the verified channel. The Users row that
\* createUserAndCompany inserts after an email verification has emailverified
\* true, lastveremail the registration's email and the mobile not verified;
\* after a mobile verification it is the other way round.
C28_VerifiedFlagsFollowChannel ==
  [][\A slot \in 1 .. 2 :
       (inflight[slot].pc = "createUser" /\ inflight'[slot].pc = "idle") =>
         LET user == Users'[Len(Users')]
             registration == Registration[inflight[slot].regid]
         IN  IF inflight[slot].ver_type = "E"
             THEN /\ user.emailverified /\ ~user.mobileverified
                  /\ user.lastveremail = registration.emailid
                  /\ user.lastvermobile = ""
             ELSE /\ user.mobileverified /\ ~user.emailverified
                  /\ user.lastvermobile = registration.mobileno
                  /\ user.lastveremail = ""]_vars

\* C30: exactly one response per request. On every path through SavePayMode
\* the handler sends one HTTP response.
C30_ExactlyOneResponse ==
  res.op = "SavePayMode" => Len(res.sends) = 1

====
